---- MODULE Spec2Model ----
(***************************************************************************)
(* State-machine model of XillenSecurityBot (src/bot.py): the per-user     *)
(* suspicion ledger (suspicious_users), the spam window check (is_spam),   *)
(* the escalation alerts, the bounded in-memory event list                 *)
(* (security_events) and the sqlite tables behind class Database.          *)
(*                                                                         *)
(* A handler is one action: python-telegram-bot awaits a handler to its    *)
(* end before it dispatches the next update.  Time is counted in whole     *)
(* seconds.  The "timestamp" field of a reason entry (bot.py line 454) is  *)
(* written once and read by no handler; the model leaves it out.           *)
(***************************************************************************)
EXTENDS Integers, Sequences, FiniteSets, TLC

VARIABLES
    suspicious_users,   \* dict username -> record (bot.py line 35)
    security_events,    \* list of SecurityEvent (bot.py line 34)
    db_events,          \* rows of table security_events, in insertion order
    db_messages,        \* rows of table messages
    config,             \* self.config
    now,                \* the wall clock read by datetime.datetime.now(), in seconds
    serial,             \* number of SecurityEvent objects constructed so far
    tasks,              \* add_suspicion calls suspended in send_message
    obs,                \* what the last handler did and replied
    add_calls           \* per user with a record: the add_suspicion calls made
                        \* for the user since the record was created

vars == <<suspicious_users, security_events, db_events, db_messages, config,
          now, serial, tasks, obs, add_calls>>

----------------------------------------------------------------------------
(* Bounds of the model.                                                    *)

MaxReasons == 3
MaxOffset == 13
MaxDays == 1
MaxAppends == 1002
MaxDbFailures == 1
MaxQueryEvents == 27
MaxTasks == 3
MaxScanReasons == 5
MaxScanEvents == 2
MaxStatEvents == 6
MaxStatReasons == 1
MaxIngestReasons == 5

----------------------------------------------------------------------------
(* Program constants.                                                      *)

MaxEvents == 1000
MaxLogLimit == 25
DefaultLogLimit == 10
WarnPoints == 2
BanPoints == 5
ContentPoints == 1
SpamPoints == 2
DangerPoints == 3
NewAccountDays == 7
DaySeconds == 86400
TopTypes == 5

Users == {"alice", "bob"}

\* message texts, as tuples of characters
TextHello == <<"h", "i">>
TextHack == <<"H", "a", "c", "k">>
Texts == {TextHello, TextHack}

UpperChars == <<"A", "C", "H", "K">>
LowerChars == <<"a", "c", "h", "k">>

\* str.lower() on one character
LowerChar(c) ==
    IF \E i \in 1..Len(UpperChars) : UpperChars[i] = c
    THEN LowerChars[CHOOSE i \in 1..Len(UpperChars) : UpperChars[i] = c]
    ELSE c

\* message.text.lower()
Lower(text) == [i \in 1..Len(text) |-> LowerChar(text[i])]

\* word in content
Contains(content, word) ==
    \E i \in 1..(Len(content) - Len(word) + 1) :
        SubSeq(content, i, i + Len(word) - 1) = word

\* the configuration load_config writes when config.json is missing
DefaultConfig ==
    [ log_chat_id          |-> FALSE,
      auto_moderation      |-> TRUE,
      suspicious_threshold |-> 3,
      blocked_words        |-> { <<"h", "a", "c", "k">>, <<"b", "o", "t">> },
      spam_threshold       |-> 5,
      spam_timeout         |-> 10 ]

\* a config.json of a deployment: alerts go to a log chat, two messages fill
\* the spam window
DeployedConfig ==
    [ DefaultConfig EXCEPT !.log_chat_id = TRUE,
                           !.spam_threshold = 2 ]

\* a config.json with auto moderation off and a higher escalation threshold
ManualConfig ==
    [ DefaultConfig EXCEPT !.auto_moderation = FALSE,
                           !.suspicious_threshold = 5,
                           !.spam_threshold = 1 ]

Configs == {DeployedConfig, ManualConfig}

----------------------------------------------------------------------------
(* The ledger.                                                             *)

\* lines 443-447: the record add_suspicion creates for an unknown user
NewRecord == [total_points |-> 0, reasons |-> <<>>, recent_messages |-> <<>>]

\* total_points assigned instead of incremented
AddSuspicionLedgerAssign(users, username, reason, points) ==
    LET base == IF username \in DOMAIN users
                THEN users
                ELSE (username :> NewRecord) @@ users
    IN  [base EXCEPT ![username] =
            [@ EXCEPT !.total_points = points,
                      !.reasons = Append(@, [reason |-> reason, points |-> points])]]

\* the reason put in front of the earlier ones
AddSuspicionLedgerPrepend(users, username, reason, points) ==
    LET base == IF username \in DOMAIN users
                THEN users
                ELSE (username :> NewRecord) @@ users
    IN  [base EXCEPT ![username] =
            [@ EXCEPT !.total_points = @ + points,
                      !.reasons = <<[reason |-> reason, points |-> points]>> \o @]]

\* lines 442-455: create the record if absent, add the points, append the reason
AddSuspicionLedger(users, username, reason, points) ==
    LET base == IF username \in DOMAIN users
                THEN users
                ELSE (username :> NewRecord) @@ users
    IN  [base EXCEPT ![username] =
            [@ EXCEPT !.total_points = @ + points,
                      !.reasons = Append(@, [reason |-> reason, points |-> points])]]

\* escalation on the first crossing only
ShouldEscalateOnce(user_data, cfg) ==
    /\ user_data.total_points >= cfg.suspicious_threshold
    /\ user_data.total_points - user_data.reasons[Len(user_data.reasons)].points
           < cfg.suspicious_threshold

\* line 457: the escalation test
ShouldEscalate(user_data, cfg) ==
    user_data.total_points >= cfg.suspicious_threshold

\* lines 468: the reasons listed in the high-suspicion alert
LastReasons(user_data, n) ==
    LET rs == user_data.reasons
    IN  [i \in 1..(IF Len(rs) < n THEN Len(rs) ELSE n) |->
            rs[Len(rs) - (IF Len(rs) < n THEN Len(rs) ELSE n) + i].reason]

\* lines 473-483: the alert is handed to send_message only when a log chat is
\* configured; an exception of send_message is caught and logged
SendSecurityAlert(alerts, cfg, alert, sink_ok) ==
    IF cfg.log_chat_id
    THEN Append(alerts, [kind |-> alert.kind, user |-> alert.user,
                         points |-> alert.points, delivered |-> sink_ok])
    ELSE alerts

\* lines 460-471
HandleHighSuspicion(alerts, cfg, username, user_data, sink_ok) ==
    SendSecurityAlert(alerts, cfg,
        [kind |-> "high_suspicion", user |-> username,
         points |-> user_data.total_points], sink_ok)

\* add_suspicion undone when the alert it sent was not delivered
AddSuspicionRollback(w, cfg, username, reason, points, sink_ok) ==
    LET users2 == AddSuspicionLedger(w.users, username, reason, points)
        user_data == users2[username]
        esc == ShouldEscalate(user_data, cfg)
    IN  [ users  |-> IF esc /\ cfg.log_chat_id /\ ~sink_ok THEN w.users ELSE users2,
          calls  |-> Append(w.calls,
                        [user |-> username, reason |-> reason, points |-> points,
                         post |-> user_data.total_points,
                         escalations |-> IF esc THEN 1 ELSE 0]),
          alerts |-> IF esc
                     THEN HandleHighSuspicion(w.alerts, cfg, username, user_data, sink_ok)
                     ELSE w.alerts ]

\* lines 441-458.  w is the handler's view: the ledger, the add_suspicion
\* calls made so far with what each did, and the alerts handed to the sink.
AddSuspicion(w, cfg, username, reason, points, sink_ok) ==
    LET users2 == AddSuspicionLedger(w.users, username, reason, points)
        user_data == users2[username]
        esc == ShouldEscalate(user_data, cfg)
    IN  [ users  |-> users2,
          calls  |-> Append(w.calls,
                        [user |-> username, reason |-> reason, points |-> points,
                         post |-> user_data.total_points,
                         escalations |-> IF esc THEN 1 ELSE 0]),
          alerts |-> IF esc
                     THEN HandleHighSuspicion(w.alerts, cfg, username, user_data, sink_ok)
                     ELSE w.alerts ]

----------------------------------------------------------------------------
(* The spam window.                                                        *)

\* timedelta.seconds: the seconds field of a normalised timedelta,
\* 0 <= seconds < 86400, the days kept in a separate field
TimedeltaSeconds(d) == d % DaySeconds

\* line 404
PruneRecent(recent_messages, t, cfg) ==
    SelectSeq(recent_messages,
              LAMBDA msg : TimedeltaSeconds(t - msg) < cfg.spam_timeout)

\* the comparison without the equal case
OverThresholdStrict(recent_messages, cfg) ==
    Len(recent_messages) > cfg.spam_threshold

\* the message being checked counted with the stored ones
OverThresholdCountingNow(recent_messages, cfg) ==
    Len(recent_messages) + 1 >= cfg.spam_threshold

\* line 406
OverThreshold(recent_messages, cfg) ==
    Len(recent_messages) >= cfg.spam_threshold

\* is_spam with a record created for an unknown user
IsSpamVivify(users, cfg, username, t) ==
    LET base == IF username \in DOMAIN users
                THEN users
                ELSE (username :> NewRecord) @@ users
        stored == base[username].recent_messages
        pruned == PruneRecent(stored, t, cfg)
    IN  IF OverThreshold(pruned, cfg)
        THEN [ret |-> TRUE, users |-> base, known |-> username \in DOMAIN users,
              stored |-> stored, pruned |-> pruned]
        ELSE [ret |-> FALSE,
              users |-> [base EXCEPT ![username].recent_messages = Append(pruned, t)],
              known |-> username \in DOMAIN users,
              stored |-> stored, pruned |-> pruned]

\* is_spam storing the timestamp of the message also when it returns true
IsSpamAppendAlways(users, cfg, username, t) ==
    IF username \notin DOMAIN users
    THEN [ret |-> FALSE, users |-> users, known |-> FALSE,
          stored |-> <<>>, pruned |-> <<>>]
    ELSE LET stored == users[username].recent_messages
             pruned == PruneRecent(stored, t, cfg)
         IN  [ret |-> OverThreshold(pruned, cfg),
              users |-> [users EXCEPT ![username].recent_messages =
                                          Append(pruned, t)],
              known |-> TRUE, stored |-> stored, pruned |-> pruned]

\* lines 393-411: the result, the ledger afterwards, and the list after line 404
IsSpam(users, cfg, username, t) ==
    IF username \notin DOMAIN users
    THEN [ret |-> FALSE, users |-> users, known |-> FALSE,
          stored |-> <<>>, pruned |-> <<>>]
    ELSE LET stored == users[username].recent_messages
             pruned == PruneRecent(stored, t, cfg)
         IN  IF OverThreshold(pruned, cfg)
             THEN [ret |-> TRUE, users |-> users, known |-> TRUE,
                   stored |-> stored, pruned |-> pruned]
             ELSE [ret |-> FALSE,
                   users |-> [users EXCEPT ![username].recent_messages =
                                               Append(pruned, t)],
                   known |-> TRUE, stored |-> stored, pruned |-> pruned]

\* lines 389-391
IsSuspiciousContent(content, cfg) ==
    \E word \in cfg.blocked_words : Contains(content, word)

\* lines 413-422
HandleSuspiciousMessage(w, cfg, username, sink_ok) ==
    [w EXCEPT !.alerts = SendSecurityAlert(@, cfg,
        [kind |-> "suspicious_message", user |-> username, points |-> 0], sink_ok)]

\* handle_spam adding its points whatever auto_moderation says
HandleSpamUnconditional(w, cfg, username, sink_ok) ==
    LET w1 == [w EXCEPT !.alerts = SendSecurityAlert(@, cfg,
                  [kind |-> "spam", user |-> username, points |-> 0], sink_ok)]
    IN  AddSuspicion(w1, cfg, username, "spam_detection", SpamPoints, sink_ok)

\* lines 424-439
HandleSpam(w, cfg, username, sink_ok) ==
    LET w1 == [w EXCEPT !.alerts = SendSecurityAlert(@, cfg,
                  [kind |-> "spam", user |-> username, points |-> 0], sink_ok)]
    IN  IF cfg.auto_moderation
        THEN AddSuspicion(w1, cfg, username, "spam_detection", SpamPoints, sink_ok)
        ELSE w1

\* lines 376-387: the handler's view after process_message, with the spam check's
\* observation
ProcessMessage(w, cfg, username, text, t, sink_ok) ==
    LET content == Lower(text)
        hit == IsSuspiciousContent(content, cfg)
        w1 == IF hit
              THEN AddSuspicion(HandleSuspiciousMessage(w, cfg, username, sink_ok),
                                cfg, username, "suspicious_content", ContentPoints,
                                sink_ok)
              ELSE w
        sp == IsSpam(w1.users, cfg, username, t)
        w2 == [w1 EXCEPT !.users = sp.users]
        w3 == IF sp.ret
              THEN AddSuspicion(HandleSpam(w2, cfg, username, sink_ok),
                                cfg, username, "spam", SpamPoints, sink_ok)
              ELSE w2
    IN  [w |-> w3, hit |-> hit, sp |-> sp]

----------------------------------------------------------------------------
(* The event list and the database.                                        *)

\* lines 100-110: the SecurityEvent start_command constructs; seq stands for the
\* identity of the object (the n-th event constructed)
StartEvent(n, user_name) ==
    [seq |-> n, event_type |-> "START_COMMAND", user_name |-> user_name]

\* the first 1000 kept instead of the last
TrimEventsKeepFirst(events) ==
    IF Len(events) > MaxEvents
    THEN SubSeq(events, 1, MaxEvents)
    ELSE events

\* lines 508-509: keep the last 1000
TrimEvents(events) ==
    IF Len(events) > MaxEvents
    THEN SubSeq(events, Len(events) - MaxEvents + 1, Len(events))
    ELSE events

\* lines 504-509.  db.log_event (lines 605-625) inserts one row and commits; when
\* sqlite raises, the exception leaves log_security_event at line 506.
LogSecurityEvent(events, rows, event, db_ok) ==
    IF db_ok
    THEN [events |-> TrimEvents(Append(events, event)),
          rows |-> Append(rows, event), raised |-> FALSE]
    ELSE [events |-> Append(events, event), rows |-> rows, raised |-> TRUE]

\* a plain INSERT into a table without a primary key
LogMessageInsert(table, message_id, content) ==
    Append(table, [id |-> message_id, content |-> content])

\* lines 627-646: INSERT OR REPLACE on the primary key id (lines 591-592): the
\* row that holds the id is deleted and the new row is inserted
LogMessage(table, message_id, content) ==
    Append(SelectSeq(table, LAMBDA row : row.id # message_id),
           [id |-> message_id, content |-> content])

\* str.upper() on the event types a caller passes to /logs
UpperType(s) ==
    CASE s = "start_command" -> "START_COMMAND"
      [] s = "spam" -> "SPAM"
      [] s = "all" -> "ALL"
      [] OTHER -> s

\* events[:limit], the first limit elements
SliceHead(events, limit) ==
    SubSeq(events, 1, IF limit < Len(events) THEN limit ELSE Len(events))

\* events[-limit:], Python's slice: the last limit elements for limit > 0, the
\* whole list for limit = 0 (-0 is 0), the list without its first -limit
\* elements for limit < 0
SliceFromMinus(events, limit) ==
    LET n == Len(events)
        start == IF limit > 0
                 THEN (IF limit >= n THEN 0 ELSE n - limit)
                 ELSE (IF -limit >= n THEN n ELSE -limit)
    IN  SubSeq(events, start + 1, n)

\* lines 295-296
ClampLimit(limit) == IF limit > MaxLogLimit THEN MaxLogLimit ELSE limit

\* lines 300-301
FilterEvents(events, event_type) ==
    IF event_type # "all"
    THEN SelectSeq(events, LAMBDA e : e.event_type = UpperType(event_type))
    ELSE events

\* lines 292-315: the events /logs shows
LogsQuery(events, event_type, limit) ==
    SliceFromMinus(FilterEvents(events, event_type), ClampLimit(limit))

\* the status derived from the configured escalation threshold
ScanStatusByThreshold(total_points) ==
    IF total_points = 0 THEN "safe"
    ELSE IF total_points < config.suspicious_threshold THEN "suspicious"
    ELSE "dangerous"

\* lines 324-327: event_types, a dict: one item per type in the order the
\* types are first met, each with the number of events of the type
RECURSIVE CountByType(_)
CountByType(events) ==
    IF events = <<>>
    THEN <<>>
    ELSE LET items == CountByType(SubSeq(events, 1, Len(events) - 1))
             type == events[Len(events)].event_type
         IN  IF \E i \in 1..Len(items) : items[i].type = type
             THEN [i \in 1..Len(items) |->
                     IF items[i].type = type
                     THEN [items[i] EXCEPT !.count = @ + 1]
                     ELSE items[i]]
             ELSE Append(items, [type |-> type, count |-> 1])

\* one item put into a list sorted by descending count, behind the items of
\* the same count
InsertByCount(sorted, item) ==
    LET ahead == SelectSeq(sorted, LAMBDA x : x.count >= item.count)
        behind == SelectSeq(sorted, LAMBDA x : x.count < item.count)
    IN  ahead \o <<item>> \o behind

\* one item put into a list sorted by descending count, in front of the items
\* of the same count
InsertByCountAhead(sorted, item) ==
    LET ahead == SelectSeq(sorted, LAMBDA x : x.count > item.count)
        behind == SelectSeq(sorted, LAMBDA x : x.count <= item.count)
    IN  ahead \o <<item>> \o behind

\* a sort by descending count that turns the order of equal counts around
RECURSIVE SortedByCountReversedTies(_)
SortedByCountReversedTies(items) ==
    IF items = <<>>
    THEN <<>>
    ELSE InsertByCountAhead(
             SortedByCountReversedTies(SubSeq(items, 1, Len(items) - 1)),
             items[Len(items)])

\* line 337: sorted(..., key=lambda x: x[1], reverse=True).  sorted is stable,
\* also with reverse=True: items of equal count keep the order of the dict
RECURSIVE SortedByCount(_)
SortedByCount(items) ==
    IF items = <<>>
    THEN <<>>
    ELSE InsertByCount(SortedByCount(SubSeq(items, 1, Len(items) - 1)),
                       items[Len(items)])

\* lines 323-338: what /stats shows
StatsResult(events, users) ==
    LET ranked == SortedByCount(CountByType(events))
    IN  [ total_events  |-> Len(events),
          tracked_users |-> Cardinality(DOMAIN users),
          top |-> SubSeq(ranked, 1,
                         IF Len(ranked) < TopTypes THEN Len(ranked) ELSE TopTypes) ]

\* lines 213-218: the status /scan shows
ScanStatus(total_points) ==
    IF total_points = 0 THEN "safe"
    ELSE IF total_points < DangerPoints THEN "suspicious"
    ELSE "dangerous"

\* lines 204-222: what /scan reads
ScanResult(users, username) ==
    IF username \in DOMAIN users
    THEN [points |-> users[username].total_points,
          status |-> ScanStatus(users[username].total_points),
          reasons |-> LastReasons(users[username], 3)]
    ELSE [points |-> 0, status |-> ScanStatus(0), reasons |-> <<>>]

\* the record emptied and kept instead of deleted
ClearUserKeepRecord(users, username) ==
    [k \in DOMAIN users |-> IF k = username THEN NewRecord ELSE users[k]]

\* lines 282-283
ClearUser(users, username) ==
    [k \in DOMAIN users \ {username} |-> users[k]]

----------------------------------------------------------------------------
(* Handlers.  obs records the last handler: its name and arguments, the     *)
(* add_suspicion calls it made, the alerts it handed to the sink, what      *)
(* is_spam saw and returned, and what it replied.                          *)

ObsNone ==
    [ op |-> "none", user |-> "", permitted |-> TRUE,
      calls |-> <<>>, alerts |-> <<>>,
      hit |-> FALSE, spam |-> FALSE, known |-> FALSE,
      stored |-> <<>>, pruned |-> <<>>, at |-> 0,
      raised |-> FALSE, reply |-> <<>> ]

\* the number of calls of one handler that were made for username
CountCalls(calls, username) ==
    Len(SelectSeq(calls, LAMBDA c : c.user = username))

\* add_calls after a handler that made calls and left the ledger users
CallsAfter(users, calls) ==
    [k \in DOMAIN users |->
        (IF k \in DOMAIN suspicious_users THEN add_calls[k] ELSE 0)
        + CountCalls(calls, k)]

\* the handler's view when it starts
View == [users |-> suspicious_users, calls |-> <<>>, alerts |-> <<>>]

\* the number of reason entries the ledger holds
RECURSIVE TotalReasons(_)
TotalReasons(users) ==
    IF DOMAIN users = {}
    THEN 0
    ELSE LET k == CHOOSE k \in DOMAIN users : TRUE
         IN  Len(users[k].reasons)
             + TotalReasons([j \in DOMAIN users \ {k} |-> users[j]])

\* the model's bound on the ledger: the reason entries it can take before it
\* holds n
LedgerRoom(n) == n - TotalReasons(suspicious_users)

\* the reason entries the handling of one message adds
MessageCalls(username, text) ==
    Len(ProcessMessage(View, config, username, text, now, TRUE).w.calls)

\* one manual action: lines 226-247 (warn) and 249-270 (ban)
ManualAction(op, username, reason, points, permitted, sink_ok) ==
    LET w == AddSuspicion(View, config, username, reason, points, sink_ok)
    IN  /\ IF permitted
           THEN /\ suspicious_users' = w.users
                /\ add_calls' = CallsAfter(w.users, w.calls)
                /\ obs' = [ObsNone EXCEPT !.op = op, !.user = username,
                                          !.calls = w.calls, !.alerts = w.alerts]
           ELSE /\ UNCHANGED <<suspicious_users, add_calls>>
                /\ obs' = [ObsNone EXCEPT !.op = op, !.permitted = FALSE]
        /\ UNCHANGED <<security_events, db_events, db_messages, config, now,
                       serial, tasks>>

\* a warning that costs as much as a ban
WarnCommandBanPoints(username, permitted, sink_ok) ==
    ManualAction("warn", username, "manual_warning", BanPoints, permitted, sink_ok)

\* lines 226-247
WarnCommand(username, permitted, sink_ok) ==
    ManualAction("warn", username, "manual_warning", WarnPoints, permitted, sink_ok)

\* lines 249-270
BanCommand(username, permitted, sink_ok) ==
    ManualAction("ban", username, "manual_ban", BanPoints, permitted, sink_ok)

\* lines 272-286
UnbanCommand(username, permitted) ==
    /\ IF permitted
       THEN /\ suspicious_users' = ClearUser(suspicious_users, username)
            /\ add_calls' = CallsAfter(ClearUser(suspicious_users, username), <<>>)
            /\ obs' = [ObsNone EXCEPT !.op = "unban", !.user = username,
                                      !.reply = username \in DOMAIN suspicious_users]
       ELSE /\ UNCHANGED <<suspicious_users, add_calls>>
            /\ obs' = [ObsNone EXCEPT !.op = "unban", !.permitted = FALSE]
    /\ UNCHANGED <<security_events, db_events, db_messages, config, now,
                   serial, tasks>>

\* /scan with the lookup creating the record it does not find
ScanCommandVivify(username, permitted) ==
    LET users == IF username \in DOMAIN suspicious_users
                 THEN suspicious_users
                 ELSE (username :> NewRecord) @@ suspicious_users
    IN  /\ suspicious_users' = IF permitted THEN users ELSE suspicious_users
        /\ add_calls' = IF permitted THEN CallsAfter(users, <<>>) ELSE add_calls
        /\ obs' = IF permitted
                  THEN [ObsNone EXCEPT !.op = "scan", !.user = username,
                                       !.reply = ScanResult(suspicious_users, username)]
                  ELSE [ObsNone EXCEPT !.op = "scan", !.permitted = FALSE]
        /\ UNCHANGED <<security_events, db_events, db_messages,
                       config, now, serial, tasks>>

\* lines 195-224
ScanCommand(username, permitted) ==
    /\ obs' = IF permitted
              THEN [ObsNone EXCEPT !.op = "scan", !.user = username,
                                   !.reply = ScanResult(suspicious_users, username)]
              ELSE [ObsNone EXCEPT !.op = "scan", !.permitted = FALSE]
    /\ UNCHANGED <<suspicious_users, security_events, db_events, db_messages,
                   config, now, serial, tasks, add_calls>>

\* lines 349-361: a text message in a group chat (a private chat returns at
\* line 355).  db.log_message runs after process_message; when sqlite raises,
\* the row is not written.
HandleMessage(username, message_id, text, private, sink_ok, db_ok) ==
    LET r == ProcessMessage(View, config, username, text, now, sink_ok)
    IN  /\ IF private
           THEN /\ UNCHANGED <<suspicious_users, db_messages, add_calls>>
                /\ obs' = [ObsNone EXCEPT !.op = "private_message"]
           ELSE /\ suspicious_users' = r.w.users
                /\ add_calls' = CallsAfter(r.w.users, r.w.calls)
                /\ db_messages' = IF db_ok
                                  THEN LogMessage(db_messages, message_id, text)
                                  ELSE db_messages
                /\ obs' = [ObsNone EXCEPT
                              !.op = "message", !.user = username,
                              !.calls = r.w.calls, !.alerts = r.w.alerts,
                              !.hit = r.hit, !.spam = r.sp.ret,
                              !.known = r.sp.known, !.stored = r.sp.stored,
                              !.pruned = r.sp.pruned, !.at = now,
                              !.raised = ~db_ok,
                              !.reply = [message_id |-> message_id,
                                         content |-> text]]
        /\ UNCHANGED <<security_events, db_events, config, now, serial, tasks>>

\* lines 363-374 and 485-502: any other message of a group chat; an account
\* younger than 7 days is reported to the log chat, and nothing else is done
HandleAllMessages(username, age_days, sink_ok) ==
    /\ obs' = [ObsNone EXCEPT
                  !.op = "new_user_check", !.user = username,
                  !.hit = (age_days < NewAccountDays),
                  !.alerts = IF age_days < NewAccountDays
                             THEN SendSecurityAlert(<<>>, config,
                                      [kind |-> "new_account", user |-> username,
                                       points |-> 0], sink_ok)
                             ELSE <<>>]
    /\ UNCHANGED <<suspicious_users, security_events, db_events, db_messages,
                   config, now, serial, tasks, add_calls>>

\* lines 91-110
StartCommand(user_name, db_ok) ==
    LET r == LogSecurityEvent(security_events, db_events,
                              StartEvent(serial + 1, user_name), db_ok)
    IN  /\ security_events' = r.events
        /\ db_events' = r.rows
        /\ serial' = serial + 1
        /\ obs' = [ObsNone EXCEPT !.op = "start", !.user = user_name,
                                  !.raised = r.raised]
        /\ UNCHANGED <<suspicious_users, db_messages, config, now, tasks,
                       add_calls>>

\* lines 288-317
LogsCommand(event_type, limit, permitted) ==
    /\ obs' = IF permitted
              THEN [ObsNone EXCEPT !.op = "logs", !.user = event_type,
                                   !.at = limit,
                                   !.reply = LogsQuery(security_events, event_type, limit)]
              ELSE [ObsNone EXCEPT !.op = "logs", !.permitted = FALSE]
    /\ UNCHANGED <<suspicious_users, security_events, db_events, db_messages,
                   config, now, serial, tasks, add_calls>>

\* lines 319-340
StatsCommand(permitted) ==
    /\ obs' = IF permitted
              THEN [ObsNone EXCEPT !.op = "stats",
                                   !.reply = StatsResult(security_events,
                                                         suspicious_users)]
              ELSE [ObsNone EXCEPT !.op = "stats", !.permitted = FALSE]
    /\ UNCHANGED <<suspicious_users, security_events, db_events, db_messages,
                   config, now, serial, tasks, add_calls>>

\* lines 342-347: config.json is read again
ReloadCommand(cfg, permitted) ==
    /\ config' = IF permitted THEN cfg ELSE config
    /\ obs' = [ObsNone EXCEPT !.op = "reload", !.permitted = permitted]
    /\ UNCHANGED <<suspicious_users, security_events, db_events, db_messages,
                   now, serial, tasks, add_calls>>

\* the wall clock advances by d seconds
Tick(d) ==
    /\ now' = now + d
    /\ obs' = [ObsNone EXCEPT !.op = "tick"]
    /\ UNCHANGED <<suspicious_users, security_events, db_events, db_messages,
                   config, serial, tasks, add_calls>>

----------------------------------------------------------------------------
(* Spec: the bot with updates handled one at a time.                       *)

TickSteps == {3, 10, DaySeconds}
MessageIds == {1}
AccountAges == {0, NewAccountDays}

Init ==
    /\ suspicious_users = <<>>
    /\ security_events = <<>>
    /\ db_events = <<>>
    /\ db_messages = <<>>
    /\ config \in Configs
    /\ now = 0
    /\ serial = 0
    /\ tasks = <<>>
    /\ obs = ObsNone
    /\ add_calls = <<>>

Next ==
    \/ \E u \in Users, ok \in BOOLEAN :
          LedgerRoom(MaxReasons) >= 1 /\ WarnCommand(u, TRUE, ok)
    \/ \E u \in Users : WarnCommand(u, FALSE, TRUE)
    \/ \E u \in Users, ok \in BOOLEAN :
          LedgerRoom(MaxReasons) >= 1 /\ BanCommand(u, TRUE, ok)
    \/ \E u \in Users : BanCommand(u, FALSE, TRUE)
    \/ \E u \in Users, p \in BOOLEAN : UnbanCommand(u, p)
    \/ \E u \in Users, p \in BOOLEAN : ScanCommand(u, p)
    \/ \E u \in Users, m \in MessageIds, x \in Texts,
          ok \in BOOLEAN, d \in BOOLEAN :
          /\ MessageCalls(u, x) <= LedgerRoom(MaxReasons)
          /\ HandleMessage(u, m, x, FALSE, ok, d)
    \/ \E u \in Users : HandleMessage(u, 1, TextHello, TRUE, TRUE, TRUE)
    \/ \E u \in Users, a \in AccountAges : HandleAllMessages(u, a, TRUE)
    \/ \E c \in Configs, p \in BOOLEAN : ReloadCommand(c, p)

Spec == Init /\ [][Next]_vars

----------------------------------------------------------------------------
(* SpecSpam: one user's messages under a fixed configuration, the clock    *)
(* advancing between them.                                                 *)

SpamUsers == {"alice"}

\* the model's bound on the clock: at most MaxDays whole days and MaxOffset
\* seconds into a day
TickWithinBounds(d) ==
    IF d < DaySeconds
    THEN (now % DaySeconds) + d <= MaxOffset
    ELSE now \div DaySeconds < MaxDays

SpamConfigs == {DefaultConfig, DeployedConfig}

InitSpam ==
    /\ suspicious_users = <<>>
    /\ security_events = <<>>
    /\ db_events = <<>>
    /\ db_messages = <<>>
    /\ config \in SpamConfigs
    /\ now = 0
    /\ serial = 0
    /\ tasks = <<>>
    /\ obs = ObsNone
    /\ add_calls = <<>>

NextSpam ==
    \/ \E u \in SpamUsers : LedgerRoom(MaxReasons) >= 1 /\ WarnCommand(u, TRUE, TRUE)
    \/ \E u \in SpamUsers : UnbanCommand(u, TRUE)
    \/ \E u \in SpamUsers, x \in Texts :
          /\ MessageCalls(u, x) <= LedgerRoom(MaxReasons)
          /\ HandleMessage(u, 1, x, FALSE, TRUE, TRUE)
    \/ \E d \in TickSteps : TickWithinBounds(d) /\ Tick(d)

SpecSpam == InitSpam /\ [][NextSpam]_vars

----------------------------------------------------------------------------
(* SpecLog: /start commands filling the event list past its capacity, the  *)
(* database write failing now and then.                                    *)

InitLog ==
    /\ suspicious_users = <<>>
    /\ security_events = <<>>
    /\ db_events = <<>>
    /\ db_messages = <<>>
    /\ config = DefaultConfig
    /\ now = 0
    /\ serial = 0
    /\ tasks = <<>>
    /\ obs = ObsNone
    /\ add_calls = <<>>

\* the database writes that have failed
DbFailures == serial - Len(db_events)

NextLog ==
    \/ /\ serial < MaxAppends
       /\ StartCommand("alice", TRUE)
    \/ /\ serial < MaxAppends
       /\ DbFailures < MaxDbFailures
       /\ StartCommand("alice", FALSE)

SpecLog == InitLog /\ [][NextLog]_vars

----------------------------------------------------------------------------
(* SpecView: /start commands whose database writes all succeed, in one run *)
(* of the process that started with an empty table.                        *)

NextView ==
    /\ serial < MaxAppends
    /\ StartCommand("alice", TRUE)

SpecView == InitLog /\ [][NextView]_vars

----------------------------------------------------------------------------
(* SpecQuery: /start commands and /logs queries.                           *)

LogTypes == {"all", "start_command", "spam"}
LogLimits == {-1, 0, 1, DefaultLogLimit, MaxLogLimit, 100}

NextQuery ==
    \/ /\ serial < MaxQueryEvents
       /\ StartCommand("alice", TRUE)
    \/ \E t \in LogTypes, l \in LogLimits, p \in BOOLEAN : LogsCommand(t, l, p)

SpecQuery == InitLog /\ [][NextQuery]_vars

----------------------------------------------------------------------------
(* SpecConc: add_suspicion calls of handlers that run concurrently.  A     *)
(* coroutine runs without interruption from one await that suspends to the *)
(* next: add_suspicion runs lines 442-457 and the composition of the alert *)
(* (lines 461-469) in one piece and is suspended only in send_message      *)
(* (line 477), where the calls for other updates run.                      *)

TaskIdle ==
    [pc |-> "idle", user |-> "", points |-> 0, alert_points |-> 0,
     overlapped |-> FALSE]

InitConc ==
    /\ suspicious_users = <<>>
    /\ security_events = <<>>
    /\ db_events = <<>>
    /\ db_messages = <<>>
    /\ config = DeployedConfig
    /\ now = 0
    /\ serial = 0
    /\ tasks = [t \in 1..MaxTasks |-> TaskIdle]
    /\ obs = ObsNone
    /\ add_calls = <<>>

\* the ledger written back after send_message returned, with the total the alert
\* was composed with
LedgerAfterSendStale(users, task) ==
    [users EXCEPT ![task.user].total_points = task.alert_points]

\* lines 457-458 and 476-483: when send_message returns or raises, send_security_alert,
\* handle_high_suspicion and add_suspicion return; nothing is written
LedgerAfterSend(users, task) == users

\* lines 441-458, up to the await of send_message at line 477
CallAddSuspicion(t, username, reason, points) ==
    LET w == AddSuspicion(View, config, username, reason, points, TRUE)
        suspended == Len(w.alerts) > 0
    IN  /\ tasks[t].pc = "idle"
        /\ suspicious_users' = w.users
        /\ add_calls' = CallsAfter(w.users, w.calls)
        /\ tasks' = [tasks EXCEPT ![t] =
              [pc |-> IF suspended THEN "send" ELSE "returned",
               user |-> username, points |-> points,
               alert_points |-> IF suspended THEN w.alerts[1].points ELSE 0,
               overlapped |-> \E o \in DOMAIN tasks :
                                  tasks[o].pc = "send" /\ tasks[o].user = username]]
        /\ obs' = [ObsNone EXCEPT !.op = "add_suspicion", !.user = username,
                                  !.calls = w.calls]
        /\ UNCHANGED <<security_events, db_events, db_messages, config, now, serial>>

\* lines 476-483: send_message returns, or raises and the exception is logged
SendReturns(t, sink_ok) ==
    /\ tasks[t].pc = "send"
    /\ suspicious_users' = LedgerAfterSend(suspicious_users, tasks[t])
    /\ tasks' = [tasks EXCEPT ![t].pc = "returned"]
    /\ obs' = [ObsNone EXCEPT !.op = "send_returns", !.user = tasks[t].user,
                              !.raised = ~sink_ok]
    /\ UNCHANGED <<security_events, db_events, db_messages, config, now, serial,
                   add_calls>>

NextConc ==
    \/ \E t \in 1..MaxTasks, u \in Users : CallAddSuspicion(t, u, "manual_warning", WarnPoints)
    \/ \E t \in 1..MaxTasks, u \in Users : CallAddSuspicion(t, u, "manual_ban", BanPoints)
    \/ \E t \in 1..MaxTasks, ok \in BOOLEAN : SendReturns(t, ok)

SpecConc == InitConc /\ [][NextConc]_vars

----------------------------------------------------------------------------
(* SpecLedger: add_suspicion called with any integer for points, also one  *)
(* that no handler of the bot passes; /unban and /scan between the calls.  *)

PointValues == {-1, 0, 1, 2}

\* lines 441-458: one call of add_suspicion
AddSuspicionCall(username, points, sink_ok) ==
    ManualAction("add_suspicion", username, "x", points, TRUE, sink_ok)

NextLedger ==
    \/ \E u \in Users, p \in PointValues, ok \in BOOLEAN :
          LedgerRoom(MaxReasons) >= 1 /\ AddSuspicionCall(u, p, ok)
    \/ \E u \in Users : UnbanCommand(u, TRUE)
    \/ \E u \in Users : ScanCommand(u, TRUE)

SpecLedger == Init /\ [][NextLedger]_vars

----------------------------------------------------------------------------
(* SpecScan: one user's record growing past three reasons, /scan of that   *)
(* user and of a user without a record, under both configurations.         *)

NextScan ==
    \/ \E ok \in BOOLEAN :
          LedgerRoom(MaxScanReasons) >= 1 /\ WarnCommand("alice", TRUE, ok)
    \/ LedgerRoom(MaxScanReasons) >= 1 /\ BanCommand("alice", TRUE, TRUE)
    \/ /\ MessageCalls("alice", TextHack) <= LedgerRoom(MaxScanReasons)
       /\ HandleMessage("alice", 1, TextHack, FALSE, TRUE, TRUE)
    \/ UnbanCommand("alice", TRUE)
    \/ \E u \in Users, p \in BOOLEAN : ScanCommand(u, p)
    \/ \E c \in Configs : ReloadCommand(c, TRUE)
    \/ serial < MaxScanEvents /\ StartCommand("alice", TRUE)

SpecScan == Init /\ [][NextScan]_vars

----------------------------------------------------------------------------
(* SpecStore: group messages with two message ids and two texts, each       *)
(* written to table messages.                                              *)

StoreIds == {1, 2}

NextStore ==
    \/ \E u \in Users, m \in StoreIds, x \in Texts :
          /\ MessageCalls(u, x) <= LedgerRoom(MaxReasons)
          /\ HandleMessage(u, m, x, FALSE, TRUE, TRUE)
    \/ \E u \in Users : UnbanCommand(u, TRUE)

SpecStore == InitLog /\ [][NextStore]_vars

----------------------------------------------------------------------------
(* SpecStats: /stats over event lists of every mix of types.  The lists    *)
(* are drawn at the start: stats_command computes its reply from the list  *)
(* it finds, and start_command, the one handler that appends events, only  *)
(* ever appends the type START_COMMAND.                                    *)

\* line 24: event_type is a string; the types named for the bot
StatEventTypes ==
    {"START_COMMAND", "SUSPICIOUS_CONTENT", "SPAM", "MANUAL_WARNING",
     "MANUAL_BAN", "NEW_ACCOUNT"}

\* the lists of at most MaxStatEvents event types
StatTypeLists == UNION {[1..n -> StatEventTypes] : n \in 0..MaxStatEvents}

InitStats ==
    /\ suspicious_users = <<>>
    /\ \E types \in StatTypeLists :
          security_events = [i \in 1..Len(types) |->
                                [seq |-> i, event_type |-> types[i],
                                 user_name |-> "alice"]]
    /\ db_events = security_events
    /\ db_messages = <<>>
    /\ config = DefaultConfig
    /\ now = 0
    /\ serial = Len(security_events)
    /\ tasks = <<>>
    /\ obs = ObsNone
    /\ add_calls = <<>>

NextStats ==
    \/ StatsCommand(TRUE)
    \/ \E u \in SpamUsers :
          LedgerRoom(MaxStatReasons) >= 1 /\ WarnCommand(u, TRUE, TRUE)

SpecStats == InitStats /\ [][NextStats]_vars

----------------------------------------------------------------------------
(* SpecIngest: one user's messages, with and without a blocked word, under *)
(* a configuration with auto moderation and one without, the ledger taking *)
(* enough reasons for a message to be both suspicious and spam.            *)

NextIngest ==
    \/ \E x \in Texts :
          /\ MessageCalls("alice", x) <= LedgerRoom(MaxIngestReasons)
          /\ HandleMessage("alice", 1, x, FALSE, TRUE, TRUE)
    \/ LedgerRoom(MaxIngestReasons) >= 1 /\ WarnCommand("alice", TRUE, TRUE)
    \/ UnbanCommand("alice", TRUE)
    \/ \E c \in Configs : ReloadCommand(c, TRUE)

SpecIngest == Init /\ [][NextIngest]_vars

----------------------------------------------------------------------------
(* Properties of the ledger.                                               *)

\* the smaller of two numbers
Min(a, b) == IF a < b THEN a ELSE b

RECURSIVE SumPoints(_)
SumPoints(reasons) ==
    IF reasons = <<>> THEN 0 ELSE reasons[1].points + SumPoints(Tail(reasons))

\* C1: in every reachable state, every record's total_points is the sum of the
\* points of its reasons, and its reasons hold one entry per add_suspicion call
\* made for the user since the record was created.
C1_TotalIsSumOfReasons ==
    \A u \in DOMAIN suspicious_users :
        /\ suspicious_users[u].total_points = SumPoints(suspicious_users[u].reasons)
        /\ Len(suspicious_users[u].reasons) = add_calls[u]

\* a message found to be spam has just added two reasons to a record that had one
C1_Witness ==
    /\ obs.op = "message" /\ obs.spam /\ Len(obs.calls) = 2
    /\ obs.user \in DOMAIN suspicious_users
    /\ Len(suspicious_users[obs.user].reasons) = 3
    /\ suspicious_users[obs.user].total_points = 5

\* the points of the calls made for username, whatever their state
RECURSIVE PointsCalled(_, _)
PointsCalled(n, username) ==
    IF n = 0 THEN 0
    ELSE (IF tasks[n].pc # "idle" /\ tasks[n].user = username
          THEN tasks[n].points ELSE 0) + PointsCalled(n - 1, username)

\* the calls made for username
TasksCalled(username) ==
    {t \in DOMAIN tasks : tasks[t].pc # "idle" /\ tasks[t].user = username}

\* C3: whatever the interleaving of add_suspicion calls for one user, once no
\* call is suspended the user's total_points is the sum of the points of all
\* the calls, and reasons holds one entry per call.
C3_NoLostUpdate ==
    (\A t \in DOMAIN tasks : tasks[t].pc # "send") =>
        \A u \in Users :
            IF TasksCalled(u) = {}
            THEN u \notin DOMAIN suspicious_users
            ELSE /\ u \in DOMAIN suspicious_users
                 /\ suspicious_users[u].total_points = PointsCalled(MaxTasks, u)
                 /\ Len(suspicious_users[u].reasons) = Cardinality(TasksCalled(u))

\* three calls for one user have returned, two of them made while another was
\* suspended in send_message
C3_Witness ==
    /\ tasks # <<>>
    /\ \A t \in DOMAIN tasks : tasks[t].pc = "returned" /\ tasks[t].user = "alice"
    /\ Cardinality({t \in DOMAIN tasks : tasks[t].overlapped}) >= 2

\* the high-suspicion alerts among the alerts of one handler
HighAlerts(alerts) == SelectSeq(alerts, LAMBDA a : a.kind = "high_suspicion")

\* the calls of one handler that ended at or above the threshold
QualifyingCalls(calls, cfg) ==
    SelectSeq(calls, LAMBDA c : c.post >= cfg.suspicious_threshold)

\* C2: every add_suspicion call that leaves total_points at or above
\* suspicious_threshold runs handle_high_suspicion exactly once, with the total
\* the call produced, and a call that leaves it below runs it not at all; the
\* crossing is not remembered, so a later call at or above the threshold
\* escalates again.
C2_EscalationPerQualifyingCall ==
    /\ \A i \in 1..Len(obs.calls) :
          obs.calls[i].escalations =
              (IF obs.calls[i].post >= config.suspicious_threshold THEN 1 ELSE 0)
    /\ config.log_chat_id /\ obs.op \in {"warn", "ban", "message"} =>
          /\ Len(HighAlerts(obs.alerts)) = Len(QualifyingCalls(obs.calls, config))
          /\ \A i \in 1..Len(HighAlerts(obs.alerts)) :
                HighAlerts(obs.alerts)[i].points =
                    QualifyingCalls(obs.calls, config)[i].post

\* a call made when the total was already at the threshold escalated again
C2_Witness ==
    /\ config.log_chat_id
    /\ \E i \in 1..Len(obs.calls) :
          /\ obs.calls[i].post - obs.calls[i].points >= config.suspicious_threshold
          /\ obs.calls[i].escalations = 1
    /\ Len(HighAlerts(obs.alerts)) >= 1

----------------------------------------------------------------------------
(* Properties of the spam check.                                           *)

\* C4: for a user with a record, is_spam returns true exactly when the list
\* left by the pruning holds at least spam_threshold timestamps; when it
\* returns true the stored list is left as it was, now not appended; when it
\* returns false the stored list becomes the pruned list with now appended.
C4_SpamIffPrunedOverThreshold ==
    obs.op = "message" /\ obs.known =>
        /\ obs.spam <=> Len(obs.pruned) >= config.spam_threshold
        /\ obs.spam =>
              suspicious_users[obs.user].recent_messages = obs.stored
        /\ ~obs.spam =>
              suspicious_users[obs.user].recent_messages = Append(obs.pruned, obs.at)

\* a spam verdict on a window exactly at the threshold, reached as time passed
C4_Witness ==
    /\ obs.op = "message" /\ obs.known /\ obs.spam
    /\ Len(obs.pruned) = config.spam_threshold
    /\ obs.at > obs.pruned[1]

\* all the stored timestamps lie in the window before the check at obs.at
BurstOf(n) ==
    /\ config.spam_threshold = 5 /\ config.spam_timeout = 10
    /\ obs.op = "message" /\ obs.known
    /\ Len(obs.stored) = n
    /\ \A i \in 1..n : obs.at - obs.stored[i] >= 0 /\ obs.at - obs.stored[i] < 10

\* C5 as stated: with spam_threshold 5 and spam_timeout 10, the 5th message of
\* a burst, checked with the 4 earlier timestamps in the window, is spam.
C5_FifthCallIsSpam ==
    BurstOf(4) => obs.spam /\ Len(obs.pruned) = 4

\* C5 amended: the 5th check sees exactly the 4 earlier timestamps after
\* pruning, which is below the threshold: it returns false and appends now.
\* The 6th check of the burst, with 5 earlier timestamps, returns true.
C5_FifthCallIsNotSpam ==
    /\ BurstOf(4) =>
          /\ ~obs.spam
          /\ obs.pruned = obs.stored
          /\ suspicious_users[obs.user].recent_messages = Append(obs.stored, obs.at)
    /\ BurstOf(5) => obs.spam /\ obs.pruned = obs.stored

\* the 5th message of a burst that took some seconds has been checked
C5_Witness ==
    /\ BurstOf(4)
    /\ obs.at > obs.stored[1]
    /\ Len(suspicious_users[obs.user].recent_messages) = 5

\* C6: a stored timestamp survives the pruning only if less than spam_timeout
\* seconds have passed since it; one that is a day and a few seconds old is
\* dropped.
C6_PrunedWithinWindow ==
    obs.op = "message" /\ obs.known =>
        \A i \in 1..Len(obs.pruned) : obs.at - obs.pruned[i] < config.spam_timeout

\* C7: a message of a user without a record is not spam, and its check leaves
\* the ledger as it was; a record that appears was created by an
\* add_suspicion call of the handler.
C7_UnknownUserNeverSpam ==
    [][ /\ (obs'.op = "message" /\ ~obs'.known) =>
              /\ ~obs'.spam
              /\ suspicious_users' = suspicious_users
        /\ \A u \in (DOMAIN suspicious_users') \ (DOMAIN suspicious_users) :
              CountCalls(obs'.calls, u) >= 1 ]_vars

\* a message of a user without a record was checked while another user has one
C7_Witness ==
    /\ obs.op = "message" /\ ~obs.known /\ ~obs.spam
    /\ obs.user \notin DOMAIN suspicious_users
    /\ Cardinality(DOMAIN suspicious_users) = 1

\* C24: with the configuration fixed and spam_threshold at least 1, every
\* stored recent_messages holds at most spam_threshold timestamps, in
\* non-decreasing order, and a spam check that returned true left the stored
\* list as it was; so the list stays bounded however many messages come.
C24_WindowBounded ==
    /\ \A u \in DOMAIN suspicious_users :
          LET stored == suspicious_users[u].recent_messages
          IN  /\ Len(stored) <= config.spam_threshold
              /\ \A i, j \in 1..Len(stored) : i < j => stored[i] <= stored[j]
    /\ obs.op = "message" /\ obs.spam =>
          suspicious_users[obs.user].recent_messages = obs.stored

\* a message was found to be spam against a full window of five timestamps
\* taken at different times, and the window is as it was
C24_Witness ==
    /\ obs.op = "message" /\ obs.spam
    /\ config.spam_threshold = 5
    /\ Len(obs.stored) = 5
    /\ obs.stored[1] < obs.stored[5]
    /\ suspicious_users[obs.user].recent_messages = obs.stored

----------------------------------------------------------------------------
(* Properties of the event list.                                           *)

\* C8: security_events never holds more than 1000 events, also after a
\* database write that failed, and the oldest events are the ones dropped:
\* once 1001 events were appended the first is gone and the 1001st is there.
C8_AtMostMaxEvents ==
    /\ Len(security_events) <= MaxEvents
    /\ serial = MaxEvents + 1 =>
          /\ \A i \in 1..Len(security_events) : security_events[i].seq # 1
          /\ security_events[Len(security_events)].seq = MaxEvents + 1


\* C9: /logs shows at most 25 events, whatever limit and event type it is
\* given.
C9_QueryAtMost25 ==
    obs.op = "logs" /\ obs.permitted => Len(obs.reply) <= MaxLogLimit

\* the events of one type in a list
EventsOfType(events, type) ==
    Len(SelectSeq(events, LAMBDA e : e.event_type = type))

\* one event of the type was appended to the event list and to the database
LoggedOne(type) ==
    /\ EventsOfType(security_events', type) = EventsOfType(security_events, type) + 1
    /\ EventsOfType(db_events', type) = EventsOfType(db_events, type) + 1

\* C10: each suspicious message, each spam detection, each manual warning or
\* ban and each new account appends one SecurityEvent of its type to
\* security_events and to the database.
C10_DetectionsAreLogged ==
    [][ /\ obs'.op = "message" /\ obs'.hit => LoggedOne("SUSPICIOUS_CONTENT")
        /\ obs'.op = "message" /\ obs'.spam => LoggedOne("SPAM")
        /\ obs'.op = "warn" /\ obs'.permitted => LoggedOne("MANUAL_WARNING")
        /\ obs'.op = "ban" /\ obs'.permitted => LoggedOne("MANUAL_BAN")
        /\ obs'.op = "new_user_check" /\ obs'.hit => LoggedOne("NEW_ACCOUNT") ]_vars

----------------------------------------------------------------------------
(* Properties of the moderation commands.                                  *)

\* a user's total_points, 0 for a user without a record
PointsOf(users, username) ==
    IF username \in DOMAIN users THEN users[username].total_points ELSE 0

\* a user's reasons, none for a user without a record
ReasonsOf(users, username) ==
    IF username \in DOMAIN users THEN users[username].reasons ELSE <<>>

\* the records of all users but username are the same in both ledgers
OthersUnchanged(before, after, username) ==
    \A v \in Users \ {username} :
        /\ v \in DOMAIN after <=> v \in DOMAIN before
        /\ v \in DOMAIN before => after[v] = before[v]

\* old is a prefix of new
IsPrefix(old, new) ==
    /\ Len(old) <= Len(new)
    /\ SubSeq(new, 1, Len(old)) = old

\* C11: a permitted /warn adds exactly 2 points and a permitted /ban exactly 5
\* to the user's total_points, each appends exactly one reason entry to the
\* user's record, creating the record if the user had none, and the records of
\* all other users stay as they were.
C11_ManualActionCosts ==
    [][ obs'.op \in {"warn", "ban"} /\ obs'.permitted =>
          /\ obs'.user \in DOMAIN suspicious_users'
          /\ PointsOf(suspicious_users', obs'.user) =
                PointsOf(suspicious_users, obs'.user)
                + (IF obs'.op = "warn" THEN 2 ELSE 5)
          /\ Len(ReasonsOf(suspicious_users', obs'.user)) =
                Len(ReasonsOf(suspicious_users, obs'.user)) + 1
          /\ IsPrefix(ReasonsOf(suspicious_users, obs'.user),
                      ReasonsOf(suspicious_users', obs'.user))
          /\ OthersUnchanged(suspicious_users, suspicious_users', obs'.user) ]_vars

\* a warning followed by a ban of one user, while another user has a record
C11_Witness ==
    /\ obs.op = "ban" /\ obs.permitted
    /\ obs.user \in DOMAIN suspicious_users
    /\ suspicious_users[obs.user].total_points = 7
    /\ Len(suspicious_users[obs.user].reasons) = 2
    /\ Cardinality(DOMAIN suspicious_users) = 2

\* C12: an add_suspicion call with zero or negative points is rejected with an
\* error and not applied: the ledger stays as it was, no record is created and
\* handle_high_suspicion is not run.
C12_NonPositivePointsRejected ==
    [][ obs'.op = "add_suspicion" /\ obs'.calls[1].points <= 0 =>
          /\ suspicious_users' = suspicious_users
          /\ obs'.calls[1].escalations = 0
          /\ obs'.raised ]_vars

\* C13: a record only grows until /unban deletes it.  total_points is never
\* negative, and across every step that is not a permitted /unban of the user
\* the record stays, total_points does not decrease, and the reasons held
\* before are a prefix of the reasons held after.
C13_RecordOnlyGrows ==
    [][ /\ \A u \in DOMAIN suspicious_users' :
              suspicious_users'[u].total_points >= 0
        /\ \A u \in DOMAIN suspicious_users :
              ~(obs'.op = "unban" /\ obs'.permitted /\ obs'.user = u) =>
                  /\ u \in DOMAIN suspicious_users'
                  /\ suspicious_users'[u].total_points >=
                        suspicious_users[u].total_points
                  /\ IsPrefix(suspicious_users[u].reasons,
                              suspicious_users'[u].reasons) ]_vars

\* a warning was appended behind two reasons of other kinds
C13_Witness ==
    /\ obs.op = "warn" /\ obs.permitted
    /\ obs.user \in DOMAIN suspicious_users
    /\ Len(suspicious_users[obs.user].reasons) = 3
    /\ suspicious_users[obs.user].reasons[1].reason = "suspicious_content"
    /\ suspicious_users[obs.user].reasons[2].reason = "manual_ban"
    /\ suspicious_users[obs.user].reasons[3].reason = "manual_warning"

\* C14: whatever suspicious_threshold is configured, /scan shows the user's
\* current total_points, the status safe exactly when the total is 0,
\* suspicious exactly when it is 1 or 2 and dangerous exactly when it is 3 or
\* more, and the last 3 reasons in the order they were added.
C14_ScanBands ==
    obs.op = "scan" /\ obs.permitted =>
        LET t == PointsOf(suspicious_users, obs.user)
            rs == ReasonsOf(suspicious_users, obs.user)
            shown == obs.reply.reasons
        IN  /\ obs.reply.points = t
            /\ obs.reply.status = "safe" <=> t = 0
            /\ obs.reply.status = "suspicious" <=> (0 < t /\ t < 3)
            /\ obs.reply.status = "dangerous" <=> t >= 3
            /\ Len(shown) = (IF Len(rs) < 3 THEN Len(rs) ELSE 3)
            /\ \A i \in 1..Len(shown) :
                  shown[i] = rs[Len(rs) - Len(shown) + i].reason

\* a scan of a user with four reasons, the first of which is not shown
C14_Witness ==
    /\ obs.op = "scan" /\ obs.permitted
    /\ obs.user \in DOMAIN suspicious_users
    /\ Len(suspicious_users[obs.user].reasons) = 4
    /\ suspicious_users[obs.user].reasons[1].reason = "suspicious_content"
    /\ obs.reply.reasons = <<"manual_warning", "manual_warning", "manual_ban">>
    /\ obs.reply.status = "dangerous"
    /\ obs.reply.points = 10

\* C15: /scan only reads.  For a user with or without a record it leaves the
\* ledger, the event list and the database as they were; for a user without a
\* record it shows 0 points, the status safe and no reasons, creates no record
\* (the number of records stays the same) and raises nothing.
C15_ScanReadOnly ==
    [][ obs'.op = "scan" /\ obs'.permitted =>
          /\ suspicious_users' = suspicious_users
          /\ security_events' = security_events
          /\ db_events' = db_events
          /\ db_messages' = db_messages
          /\ Cardinality(DOMAIN suspicious_users') =
                Cardinality(DOMAIN suspicious_users)
          /\ ~obs'.raised
          /\ obs'.user \notin DOMAIN suspicious_users =>
                /\ obs'.reply = [points |-> 0, status |-> "safe", reasons |-> <<>>]
                /\ obs'.user \notin DOMAIN suspicious_users' ]_vars

\* a scan of a user without a record, while another user has one and the event
\* list holds an event
C15_Witness ==
    /\ obs.op = "scan" /\ obs.permitted
    /\ obs.user \notin DOMAIN suspicious_users
    /\ obs.reply.points = 0
    /\ Cardinality(DOMAIN suspicious_users) = 1
    /\ Len(security_events) >= 1

\* C16: a permitted /unban tells whether the user had a record; afterwards the
\* user has none (so no points, no reasons and no spam window), the number of
\* records is one lower exactly when there was one, the records of all other
\* users are as they were, and for a user without a record nothing changes
\* and nothing is raised.
C16_ClearDeletesRecord ==
    [][ obs'.op = "unban" /\ obs'.permitted =>
          /\ obs'.reply = (obs'.user \in DOMAIN suspicious_users)
          /\ obs'.user \notin DOMAIN suspicious_users'
          /\ Cardinality(DOMAIN suspicious_users') =
                Cardinality(DOMAIN suspicious_users)
                - (IF obs'.user \in DOMAIN suspicious_users THEN 1 ELSE 0)
          /\ OthersUnchanged(suspicious_users, suspicious_users', obs'.user)
          /\ obs'.user \notin DOMAIN suspicious_users =>
                suspicious_users' = suspicious_users
          /\ ~obs'.raised ]_vars

\* a user with a record was cleared while another user keeps a record with
\* two reasons
C16_Witness ==
    /\ obs.op = "unban" /\ obs.permitted /\ obs.reply = TRUE
    /\ obs.user \notin DOMAIN suspicious_users
    /\ \E v \in DOMAIN suspicious_users :
          Len(suspicious_users[v].reasons) = 2

\* C22: as long as no database write has failed, table security_events holds
\* every event logged so far, in the order they were logged, none removed, and
\* the list security_events is the last min(n, 1000) rows of the table, n the
\* number of events logged.
C22_EventLogIsTailOfStore ==
    DbFailures = 0 =>
        LET n == Min(serial, 1000)
        IN  /\ Len(db_events) = serial
            /\ \A i \in 1..serial : db_events[i].seq = i
            /\ Len(security_events) = n
            /\ \A i \in 1..n :
                  security_events[i] = db_events[Len(db_events) - n + i]

\* 1002 events were logged: the table holds them all, the list the events 3
\* to 1002
C22_Witness ==
    /\ DbFailures = 0
    /\ Len(db_events) = 1002
    /\ Len(security_events) = 1000
    /\ security_events[1].seq = 3
    /\ db_events[1].seq = 1

----------------------------------------------------------------------------
(* Properties of failures.                                                 *)

\* C17: when the database write of an event fails, the event is in
\* security_events all the same, security_events still holds at most 1000
\* events, the ledger is as it was, and the failure is raised to the caller.
C17_FailedWriteKeepsState ==
    [][ obs'.op = "start" /\ Len(db_events') = Len(db_events) =>
          /\ Len(security_events') >= 1
          /\ security_events'[Len(security_events')].seq = serial'
          /\ Len(security_events') <= MaxEvents
          /\ suspicious_users' = suspicious_users
          /\ obs'.raised ]_vars

\* some alert of the handler was not delivered
AlertFailed(alerts) == \E i \in 1..Len(alerts) : ~alerts[i].delivered

\* the add_suspicion calls of a handler that escalated
EscalatingCalls(calls) == SelectSeq(calls, LAMBDA c : c.escalations = 1)

\* the calls of a handler made with the reason
CallsWithReason(calls, reason) == SelectSeq(calls, LAMBDA c : c.reason = reason)

\* C18: when send_message fails for an alert, every add_suspicion call of the
\* handler is applied all the same (its points added, its reason appended),
\* the handler goes on to its end as if the alert had been delivered (the
\* calls after the failed alert are made and the message row is written), and
\* each alert is handed to send_message once and not again.
C18_AlertFailureIsBestEffort ==
    [][ /\ obs'.op \in {"warn", "ban", "message"}
        /\ obs'.permitted
        /\ AlertFailed(obs'.alerts)
        =>
        /\ PointsOf(suspicious_users', obs'.user) =
              PointsOf(suspicious_users, obs'.user) + SumPoints(obs'.calls)
        /\ Len(ReasonsOf(suspicious_users', obs'.user)) =
              Len(ReasonsOf(suspicious_users, obs'.user)) + Len(obs'.calls)
        /\ Len(obs'.alerts) =
              (IF obs'.hit THEN 1 ELSE 0) + (IF obs'.spam THEN 1 ELSE 0)
              + Len(EscalatingCalls(obs'.calls))
        /\ obs'.op \in {"warn", "ban"} => Len(obs'.calls) = 1 /\ ~obs'.raised
        /\ obs'.op = "message" =>
              /\ obs'.hit =>
                    Len(CallsWithReason(obs'.calls, "suspicious_content")) = 1
              /\ obs'.spam => Len(CallsWithReason(obs'.calls, "spam")) = 1
              /\ ~obs'.raised =>
                    \E i \in 1..Len(db_messages') :
                        db_messages'[i] = [id |-> obs'.reply.message_id,
                                           content |-> obs'.reply.content] ]_vars

\* a message found to be spam: the spam alert and the two escalation alerts
\* failed, the two calls were applied and the row was written
C18_Witness ==
    /\ obs.op = "message" /\ obs.spam /\ ~obs.raised
    /\ Len(obs.alerts) = 3
    /\ \A i \in 1..Len(obs.alerts) : ~obs.alerts[i].delivered
    /\ Len(obs.calls) = 2
    /\ suspicious_users[obs.user].total_points >= config.suspicious_threshold
    /\ Len(db_messages) = 1

----------------------------------------------------------------------------
(* Properties of message handling.                                         *)

\* the reasons one message adds: one for a blocked word, then for spam one
\* from handle_spam when auto moderation is on and one from process_message
ExpectedReasons(blocked, spam, auto_moderation) ==
    (IF blocked
     THEN << [reason |-> "suspicious_content", points |-> 1] >>
     ELSE << >>)
    \o (IF spam /\ auto_moderation
        THEN << [reason |-> "spam_detection", points |-> 2] >>
        ELSE << >>)
    \o (IF spam
        THEN << [reason |-> "spam", points |-> 2] >>
        ELSE << >>)

\* C23: a group message whose text holds a blocked word adds exactly one
\* reason suspicious_content worth 1 point; a message the spam check finds to
\* be spam adds spam_detection and then spam, 2 points each, when
\* auto_moderation is on (4 points, at most two escalations), and spam alone
\* when it is off; a message that is neither leaves total_points and reasons
\* as they were.
C23_PointsPerMessage ==
    [][ obs'.op = "message" =>
          LET blocked == obs'.reply.content = TextHack
              added == ExpectedReasons(blocked, obs'.spam, config.auto_moderation)
              spam_calls == SelectSeq(obs'.calls,
                                LAMBDA c : c.reason \in {"spam_detection", "spam"})
          IN  /\ ReasonsOf(suspicious_users', obs'.user) =
                    ReasonsOf(suspicious_users, obs'.user) \o added
              /\ PointsOf(suspicious_users', obs'.user) =
                    PointsOf(suspicious_users, obs'.user) + SumPoints(added)
              /\ Len(EscalatingCalls(spam_calls)) <= 2
              /\ (~blocked /\ ~obs'.spam) =>
                    (obs'.user \in DOMAIN suspicious_users' <=>
                         obs'.user \in DOMAIN suspicious_users) ]_vars

\* a message with a blocked word that was also spam, auto moderation on: three
\* reasons and five points were added to the two the record held
C23_Witness ==
    /\ obs.op = "message" /\ obs.hit /\ obs.spam
    /\ config.auto_moderation
    /\ Len(obs.calls) = 3
    /\ Len(suspicious_users[obs.user].reasons) = 5
    /\ suspicious_users[obs.user].reasons[4].reason = "spam_detection"
    /\ suspicious_users[obs.user].reasons[5].reason = "spam"

----------------------------------------------------------------------------
(* Properties of table messages.                                           *)

\* the rows of the table that hold the id
RowsWithId(table, id) == SelectSeq(table, LAMBDA row : row.id = id)

\* C19: log_message is an upsert on the message id.  After each call the
\* table holds exactly one row with the id of the call, carrying the content
\* of the call; the rows of the other ids are as they were; so the table
\* holds one row per distinct id, with the content of the latest call for it.
C19_LogMessageUpsert ==
    [][ obs'.op = "message" /\ ~obs'.raised =>
          /\ RowsWithId(db_messages', obs'.reply.message_id) =
                << [id |-> obs'.reply.message_id, content |-> obs'.reply.content] >>
          /\ \A j \in StoreIds \ {obs'.reply.message_id} :
                RowsWithId(db_messages', j) = RowsWithId(db_messages, j)
          /\ \A j \in StoreIds : Len(RowsWithId(db_messages', j)) <= 1 ]_vars

\* the one row of the table carries the second text logged with the id: the
\* text with the blocked word was logged before it, as the reason it left in
\* the ledger shows
C19_Witness ==
    /\ obs.op = "message" /\ ~obs.raised
    /\ db_messages = << [id |-> 1, content |-> TextHello] >>
    /\ DOMAIN suspicious_users = {"alice"}
    /\ suspicious_users["alice"].reasons[1].reason = "suspicious_content"
    /\ Len(suspicious_users["alice"].recent_messages) = 2

----------------------------------------------------------------------------
(* Properties of /logs.                                                    *)

\* the events the filter lets through: all of them for "all", otherwise those
\* whose type is the filter in upper case
Matching(events, filter) ==
    SelectSeq(events, LAMBDA e : filter = "all" \/ e.event_type = UpperType(filter))

\* C20: for every filter and every limit of at least 1, /logs shows exactly
\* the last min(limit, 25) of the events that match the filter (all of them
\* when there are fewer), in the order of the event list, the newest last.
C20_QueryLastMatching ==
    obs.op = "logs" /\ obs.permitted /\ obs.at >= 1 =>
        LET matching == Matching(security_events, obs.user)
            n == Min(Min(obs.at, 25), Len(matching))
        IN  /\ Len(obs.reply) = n
            /\ \A i \in 1..n :
                  obs.reply[i] = matching[Len(matching) - n + i]

\* a query for the 10 newest /start events of 27: the events 18 to 27 are shown
C20_Witness ==
    /\ obs.op = "logs" /\ obs.permitted
    /\ obs.user = "start_command" /\ obs.at = 10
    /\ Len(security_events) = 27
    /\ Len(obs.reply) = 10
    /\ obs.reply[1].seq = 18 /\ obs.reply[10].seq = 27

----------------------------------------------------------------------------
(* Properties of /stats.                                                   *)

\* the types of the events in a list
TypesIn(events) == {events[i].event_type : i \in 1..Len(events)}

\* the place of the first event of the type
FirstSeen(events, type) ==
    CHOOSE i \in 1..Len(events) :
        /\ events[i].event_type = type
        /\ \A j \in 1..(i - 1) : events[j].event_type # type

\* type a is shown before type b: it has more events, or as many and was seen
\* first
RanksBefore(events, a, b) ==
    \/ EventsOfType(events, a) > EventsOfType(events, b)
    \/ /\ EventsOfType(events, a) = EventsOfType(events, b)
       /\ FirstSeen(events, a) < FirstSeen(events, b)

\* C21: /stats shows the length of security_events as the number of events,
\* the number of records of the ledger as the number of users, and at most 5
\* types, each with the number of events of the type, in descending order of
\* that number, types with the same number in the order in which they first
\* appear in the list; a type that is not shown ranks behind all that are.
C21_StatsTopTypes ==
    obs.op = "stats" /\ obs.permitted =>
        LET top == obs.reply.top
            shown == {top[i].type : i \in 1..Len(top)}
        IN  /\ obs.reply.total_events = Len(security_events)
            /\ obs.reply.tracked_users = Cardinality(DOMAIN suspicious_users)
            /\ Len(top) = Min(5, Cardinality(TypesIn(security_events)))
            /\ \A i \in 1..Len(top) :
                  /\ top[i].type \in TypesIn(security_events)
                  /\ top[i].count = EventsOfType(security_events, top[i].type)
            /\ \A i, j \in 1..Len(top) :
                  i < j => RanksBefore(security_events, top[i].type, top[j].type)
            /\ \A t \in TypesIn(security_events) \ shown :
                  \A i \in 1..Len(top) :
                      RanksBefore(security_events, top[i].type, t)

\* six types with one event each, and a user with a record: the five types
\* seen first are shown, in the order of the list
C21_Witness ==
    /\ obs.op = "stats" /\ obs.permitted
    /\ Cardinality(TypesIn(security_events)) = 6
    /\ Len(obs.reply.top) = 5
    /\ \A i \in 1..5 : obs.reply.top[i].type = security_events[i].event_type
    /\ obs.reply.tracked_users = 1

====
